---- MODULE Spec2Model ----
(***************************************************************************)
(* TraderSignalEngine: the server's signal and trade lifecycle.            *)
(*                                                                         *)
(* The state is the in-memory store (server/storage.ts, MemStorage) and    *)
(* the HTTP requests that have reached the handlers of server/routes.ts.   *)
(* Node runs one handler at a time.  An await on a MemStorage method is    *)
(* an await on an already settled promise: its continuation is a microtask *)
(* that runs before any other request's handler, so the handler keeps the  *)
(* processor across it.  An await on the exchange collaborator             *)
(* (phemexService.executeTrade / closeTrade, the call to the exchange)     *)
(* suspends the handler until the exchange answers; other requests are     *)
(* served in between.  The handlers that call the exchange are therefore   *)
(* two steps (...Begin up to the call, ...End from its answer), all other  *)
(* handlers are one step.                                                  *)
(*                                                                         *)
(* The PhemexService kept in the repository is a simulation: its promises  *)
(* are fulfilled in the same turn and are never rejected.  The handlers    *)
(* are written against its interface, a promise that settles in a later    *)
(* turn, fulfilled or rejected (hence their try/catch), and the exchange   *)
(* itself is outside the repository.  The model gives the handlers that    *)
(* interface; the simulation's behaviour is the one in which ...End with   *)
(* ok = TRUE follows ...Begin directly.                                    *)
(***************************************************************************)
EXTENDS Integers, Sequences, FiniteSets, Bags, TLC

VARIABLES
    tradeConfig,       \* MemStorage.tradeConfig
    tradingSignals,    \* MemStorage.tradingSignals: id -> TradingSignal (ids 1..n)
    signalCurrentId,   \* MemStorage.signalCurrentId
    trades,            \* MemStorage.trades: id -> Trade (ids 1..n)
    tradeCurrentId,    \* MemStorage.tradeCurrentId
    inflight,          \* the handlers suspended in a call to the exchange (a bag)
    lastResp,          \* the last response sent by an execute / ignore / close handler
    seenIds,           \* console: the ids in the "Processing Discord message" lines
    lastLog,           \* console: the other lines of the latest processMessage call
    detector           \* the detection loop of the visual feed (SignalDetector)

\* The store and the requests
storeVars == <<tradeConfig, tradingSignals, signalCurrentId, trades, tradeCurrentId, inflight, lastResp>>

\* The console output of processMessage
logVars == <<seenIds, lastLog>>

vars == <<tradeConfig, tradingSignals, signalCurrentId, trades, tradeCurrentId, inflight, lastResp,
          seenIds, lastLog, detector>>

-----------------------------------------------------------------------------
(* Bounds of the model                                                     *)

\* Records held at most: signals stored, trades stored and handlers suspended
\* in a call to the exchange, counted together
MaxLoad == 4

\* The message ids the feed delivers
MsgIds == {"m1"}

\* The readings of the wall clock (new Date()); the wall clock is not monotonic
Times == {1, 2}

\* A nullable column: <<>> is null, <<v>> is the value v.
Null == <<>>
Some(v) == <<v>>

-----------------------------------------------------------------------------
(* client/src/lib/discordParser.ts                                         *)
(*                                                                         *)
(* A message text is a sequence of whitespace-separated tokens.  Every     *)
(* pattern of the parser is a keyword, \s+, and a captured run of          *)
(* characters, so a pattern matches at a token whose tail is the keyword   *)
(* when the next token starts with the captured run.  The tables below     *)
(* give, for each token of the vocabulary, what the character classes of   *)
(* the patterns see in it (all patterns carry the i flag).                 *)

Numerals == {"100", "90", "110", "120", "0"}
Vocabulary ==
    {"Longed", "Shorted", "LONG", "SHORT", "BTC", "ETH", "SOL", "at", "Entry:",
     "sl-", "SL:", "SL", "TP:", "TPs:", "target", "BE", "(1%", "(2%", "risk)",
     "Random", "message"} \cup Numerals

\* parseFloat on a run of [\d.]
parseFloat(s) ==
    CASE s = "100" -> 100
      [] s = "90"  -> 90
      [] s = "110" -> 110
      [] s = "120" -> 120
      [] s = "0"   -> 0

\* ([\d.]+) at the start of a token: the captured run, "" when there is none
NumPrefix(tok) == IF tok \in Numerals THEN tok ELSE ""

\* (\w+) at the start of a token: the captured run, "" when there is none
WordPrefix(tok) ==
    CASE tok = "Entry:" -> "Entry"
      [] tok = "sl-"    -> "sl"
      [] tok = "SL:"    -> "SL"
      [] tok = "TP:"    -> "TP"
      [] tok = "TPs:"   -> "TPs"
      [] tok = "risk)"  -> "risk"
      [] tok \in {"(1%", "(2%"} -> ""
      [] OTHER -> tok

\* (\w+) at the end of a token (before \s+): the captured run, "" when there is none
WordSuffix(tok) ==
    IF tok \in {"Entry:", "sl-", "SL:", "TP:", "TPs:", "(1%", "(2%", "risk)"}
    THEN "" ELSE tok

\* (\d+)% at the end of a token that starts with "(" : the captured digits
RiskDigits(tok) ==
    CASE tok = "(1%" -> "1"
      [] tok = "(2%" -> "2"
      [] OTHER -> ""

parseRisk(s) == IF s = "2" THEN 2 ELSE 1

\* The leftmost of the positions where a pattern matches, 0 when there is none
FirstIndex(hits) ==
    IF hits = {} THEN 0 ELSE CHOOSE i \in hits : \A j \in hits : i <= j

\* /(?:Longed|Shorted)\s+(\w+)|(\w+)\s+Entry:/i : tickerMatch[1] || tickerMatch[2]
TickerOf(msg) ==
    LET n == Len(msg)
        Alt1(i) == i < n /\ msg[i] \in {"Longed", "Shorted"} /\ WordPrefix(msg[i+1]) # ""
        Alt2(i) == i < n /\ WordSuffix(msg[i]) # "" /\ msg[i+1] = "Entry:"
        Hit(i) == Alt1(i) \/ Alt2(i)
        i == FirstIndex({k \in 1..n : Hit(k)})
    IN  IF i = 0 THEN ""
        ELSE IF Alt1(i) THEN WordPrefix(msg[i+1]) ELSE WordSuffix(msg[i])

\* A keyword token followed by a token that starts with [\d.]+ : the captured run
NumberAfter(msg, keywords) ==
    LET n == Len(msg)
        Hit(i) == i < n /\ msg[i] \in keywords /\ NumPrefix(msg[i+1]) # ""
        i == FirstIndex({k \in 1..n : Hit(k)})
    IN  IF i = 0 THEN "" ELSE NumPrefix(msg[i+1])

\* /Longed|LONG/i.test(message)
IsLongOf(msg) == \E i \in 1..Len(msg) : msg[i] \in {"Longed", "LONG"}

\* /\((\d+)%\s+risk\)/i, parseFloat of the capture, 1 when there is no match
RiskOf(msg) ==
    LET n == Len(msg)
        Hit(i) == i < n /\ RiskDigits(msg[i]) # "" /\ msg[i+1] = "risk)"
        i == FirstIndex({k \in 1..n : Hit(k)})
    IN  IF i = 0 THEN 1 ELSE parseRisk(RiskDigits(msg[i]))

\* parseDiscordMessage with the direction read as long unless a short keyword
\* is present
parseDiscordMessage_LongDefault(msg) ==
    LET ticker == TickerOf(msg)
        entry  == NumberAfter(msg, {"at", "Entry:"})
        sl     == NumberAfter(msg, {"sl-", "SL:", "SL"})
        tp     == NumberAfter(msg, {"TP:", "TPs:", "target"})
    IN  IF ticker = "" THEN Null
        ELSE IF entry = "" \/ parseFloat(entry) = 0 THEN Null
        ELSE IF sl = "" \/ parseFloat(sl) = 0 THEN Null
        ELSE IF tp = "" \/ parseFloat(tp) = 0 THEN Null
        ELSE Some([ticker        |-> ticker,
                   entryPrice    |-> parseFloat(entry),
                   targetPrice   |-> parseFloat(tp),
                   stopLossPrice |-> parseFloat(sl),
                   isLong        |-> ~(\E i \in 1..Len(msg) : msg[i] \in {"Shorted", "SHORT"}),
                   risk          |-> RiskOf(msg)])

\* parseDiscordMessage: Null, or Some(SignalData)
parseDiscordMessage(msg) ==
    LET ticker == TickerOf(msg)
        entry  == NumberAfter(msg, {"at", "Entry:"})
        sl     == NumberAfter(msg, {"sl-", "SL:", "SL"})
        tp     == NumberAfter(msg, {"TP:", "TPs:", "target"})
    IN  IF ticker = "" THEN Null
        ELSE IF entry = "" \/ parseFloat(entry) = 0 THEN Null
        ELSE IF sl = "" \/ parseFloat(sl) = 0 THEN Null
        ELSE IF tp = "" \/ parseFloat(tp) = 0 THEN Null
        ELSE Some([ticker        |-> ticker,
                   entryPrice    |-> parseFloat(entry),
                   targetPrice   |-> parseFloat(tp),
                   stopLossPrice |-> parseFloat(sl),
                   isLong        |-> IsLongOf(msg),
                   risk          |-> RiskOf(msg)])

\* /Entry:|at\s+[\d.]+/i.test(message)
hasEntryPattern(msg) ==
    \/ \E i \in 1..Len(msg) : msg[i] = "Entry:"
    \/ NumberAfter(msg, {"at"}) # ""

\* /SL:|sl-\s+[\d.]+/i.test(message)
hasStopLossPattern(msg) ==
    \/ \E i \in 1..Len(msg) : msg[i] = "SL:"
    \/ NumberAfter(msg, {"sl-"}) # ""

\* /TP:|TPs:|target\s+[\d.]+/i.test(message)
hasTargetPattern(msg) ==
    \/ \E i \in 1..Len(msg) : msg[i] \in {"TP:", "TPs:"}
    \/ NumberAfter(msg, {"target"}) # ""

\* /Longed|Shorted|LONG|SHORT/i.test(message)
hasDirectionPattern(msg) ==
    \E i \in 1..Len(msg) : msg[i] \in {"Longed", "Shorted", "LONG", "SHORT"}

\* hasValidSignal with the count compared to 2
hasValidSignal_AtLeastTwo(msg) ==
    LET matchCount ==
            (IF hasEntryPattern(msg) THEN 1 ELSE 0)
            + (IF hasStopLossPattern(msg) THEN 1 ELSE 0)
            + (IF hasTargetPattern(msg) THEN 1 ELSE 0)
            + (IF hasDirectionPattern(msg) THEN 1 ELSE 0)
    IN  matchCount >= 2

\* hasValidSignal: the number of patterns that match, compared to 3
hasValidSignal(msg) ==
    LET matchCount ==
            (IF hasEntryPattern(msg) THEN 1 ELSE 0)
            + (IF hasStopLossPattern(msg) THEN 1 ELSE 0)
            + (IF hasTargetPattern(msg) THEN 1 ELSE 0)
            + (IF hasDirectionPattern(msg) THEN 1 ELSE 0)
    IN  matchCount >= 3

\* The message texts the feed delivers in the lifecycle model
SampleTexts ==
    { <<"Longed", "BTC", "at", "100", "sl-", "90", "(1%", "risk)", "TPs:", "110">>,
      <<"SOL", "Entry:", "100", "SL:", "BE", "TPs:", "110">>,
      <<"Random", "message">> }

-----------------------------------------------------------------------------
(* server/storage.ts: MemStorage                                           *)
(* Columns that no handler reads back (message text, channel id, order     *)
(* data, created/updated stamps) are left out of the records.              *)

\* constructor: the default trade config
DefaultAmountPerTrade == 100
DefaultLeverage == 5

InitTradeConfig ==
    [amountPerTrade     |-> DefaultAmountPerTrade,
     leverage           |-> DefaultLeverage,
     tradeType          |-> "futures",
     autoExecute        |-> FALSE,
     allowLong          |-> TRUE,
     allowShort         |-> TRUE,
     allowedCryptos     |-> {},
     minRiskRewardRatio |-> "Any"]

\* updateTradeConfig, the branch taken when a config exists: {...this.tradeConfig, ...config}
updateTradeConfig(cfg, patch) ==
    [k \in DOMAIN cfg |-> IF k \in DOMAIN patch THEN patch[k] ELSE cfg[k]]

\* getSignalById / getTradeById: the ids of a Map filled by a counter from 1
HasSignal(id) == id \in DOMAIN tradingSignals
HasTrade(id) == id \in DOMAIN trades

\* getSignalByMessageId: is there a stored signal with this message id
getSignalByMessageId(messageId) ==
    \E id \in DOMAIN tradingSignals : tradingSignals[id].messageId = messageId

\* createSignal with the spread written last: the caller's flags survive
createSignal_KeepsFlags(insertSignal) == insertSignal

\* createSignal: the stored record; the three flags are overwritten with false
createSignal(insertSignal) ==
    [insertSignal EXCEPT !.processed = FALSE, !.executed = FALSE, !.ignored = FALSE]

\* markSignalExecuted: the signals map afterwards
markSignalExecuted(signals, id) ==
    IF id \in DOMAIN signals
    THEN [signals EXCEPT ![id].executed = TRUE, ![id].processed = TRUE]
    ELSE signals

\* getUnprocessedSignals: the ids of the signals it returns
getUnprocessedSignals ==
    {id \in DOMAIN tradingSignals :
        /\ ~tradingSignals[id].processed
        /\ ~tradingSignals[id].executed
        /\ ~tradingSignals[id].ignored}

\* markSignalIgnored that leaves the processed flag as it is
markSignalIgnored_KeepsProcessed(signals, id) ==
    IF id \in DOMAIN signals
    THEN [signals EXCEPT ![id].ignored = TRUE]
    ELSE signals

\* markSignalIgnored: the signals map afterwards
markSignalIgnored(signals, id) ==
    IF id \in DOMAIN signals
    THEN [signals EXCEPT ![id].ignored = TRUE, ![id].processed = TRUE]
    ELSE signals

\* createTrade: the stored record
createTrade(insertTrade) ==
    [signalId      |-> insertTrade.signalId,
     ticker        |-> insertTrade.ticker,
     tradeType     |-> insertTrade.tradeType,
     isLong        |-> insertTrade.isLong,
     leverage      |-> insertTrade.leverage,
     entryPrice    |-> insertTrade.entryPrice,
     targetPrice   |-> insertTrade.targetPrice,
     stopLossPrice |-> insertTrade.stopLossPrice,
     amount        |-> insertTrade.amount,
     currentPrice  |-> insertTrade.currentPrice,
     status        |-> "open",
     closeTime     |-> Null,
     closeReason   |-> Null,
     pnlAmount     |-> Some(0),
     pnlPercent    |-> Some(0)]

\* The P&L computed as for a long position whatever the direction
PnlAmount_LongOnly(trade, closePrice) ==
    ((closePrice - trade.entryPrice) * (trade.amount * trade.leverage)) \div trade.entryPrice

\* closeTrade: P&L of a position closed at closePrice.  Prices and amounts are
\* whole numbers here and the quotient is taken last, which is the value of the
\* code's floating-point expression wherever that value is a whole number.
PnlAmount(trade, closePrice) ==
    LET entryValue == trade.amount * trade.leverage
        priceDiff == IF trade.isLong THEN closePrice - trade.entryPrice
                     ELSE trade.entryPrice - closePrice
    IN  (priceDiff * entryValue) \div trade.entryPrice

PnlPercent(trade, pnlAmount) == (pnlAmount * 100) \div trade.amount

\* closeTrade that forgets the close reason
closeTrade_NoReason(trade, closeReason, closePrice, time) ==
    [trade EXCEPT
        !.status = "closed",
        !.closeTime = Some(time),
        !.currentPrice = closePrice,
        !.pnlAmount = Some(PnlAmount(trade, closePrice)),
        !.pnlPercent = Some(PnlPercent(trade, PnlAmount(trade, closePrice)))]

\* closeTrade: the stored record afterwards (the stored status is not looked at)
closeTrade(trade, closeReason, closePrice, time) ==
    [trade EXCEPT
        !.status = "closed",
        !.closeTime = Some(time),
        !.closeReason = Some(closeReason),
        !.currentPrice = closePrice,
        !.pnlAmount = Some(PnlAmount(trade, closePrice)),
        !.pnlPercent = Some(PnlPercent(trade, PnlAmount(trade, closePrice)))]

-----------------------------------------------------------------------------
(* Initial state: a fresh MemStorage, no request received                  *)

Load == Len(tradingSignals) + Len(trades) + BagCardinality(inflight)

NoResp == [kind |-> "none", id |-> 0, status |-> 0, tradeId |-> Null]

\* The detection loop before it is started: nothing on screen, no cycle
DetectorOff ==
    [feed |-> <<>>, outcome |-> <<>>, seen |-> {}, scanned |-> {}, running |-> 0,
     reveal |-> Null]

Init ==
    /\ tradeConfig = InitTradeConfig
    /\ tradingSignals = <<>>
    /\ signalCurrentId = 1
    /\ trades = <<>>
    /\ tradeCurrentId = 1
    /\ inflight = EmptyBag
    /\ lastResp = NoResp
    /\ seenIds = {}
    /\ lastLog = <<>>
    /\ detector = DetectorOff

-----------------------------------------------------------------------------
(* server/routes.ts and server/services/discordService.ts: the handlers    *)

\* A response: the handler, the id in the request path, the HTTP status and
\* the id of the trade in the body (Null when the body carries no trade)
Resp(kind, id, status, tradeId) ==
    [kind |-> kind, id |-> id, status |-> status, tradeId |-> tradeId]

\* A handler suspended in its call to the exchange, with the locals it keeps
\* across the call: the config read before the call (execute), the price read
\* from the trade before the call (close)
Call(kind, id, cfg, price) == [kind |-> kind, id |-> id, cfg |-> cfg, price |-> price]

\* The ids a request path names: every stored id and one that is not stored
SignalIds == 1..(Len(tradingSignals) + 1)
TradeIds == 1..(Len(trades) + 1)

\* PATCH /api/config bodies
ConfigPatches == { [amountPerTrade |-> 200] }

\* POST /api/signals bodies (the schema lets the caller supply the three flags)
SignalBodies ==
    { [ticker |-> "BTC", entryPrice |-> 100, targetPrice |-> 110, stopLossPrice |-> 90,
       isLong |-> TRUE, risk |-> 1, messageId |-> m,
       processed |-> f, executed |-> f, ignored |-> FALSE] : m \in MsgIds, f \in BOOLEAN }

\* PATCH /api/config
UpdateConfigReq(patch) ==
    /\ tradeConfig' = updateTradeConfig(tradeConfig, patch)
    /\ UNCHANGED <<tradingSignals, signalCurrentId, trades, tradeCurrentId, inflight, lastResp>>

\* POST /api/signals
CreateSignalReq(body) ==
    /\ Load < MaxLoad
    /\ tradingSignals' = Append(tradingSignals, createSignal(body))
    /\ signalCurrentId' = signalCurrentId + 1
    /\ UNCHANGED <<tradeConfig, trades, tradeCurrentId, inflight, lastResp>>

\* The message texts of the decision filters: long and short, two tickers,
\* reward:risk 1 and 2, and a stop at the entry price (risk 0)
DecisionTexts ==
    { <<"Longed", "BTC", "at", "100", "sl-", "90", "(1%", "risk)", "TPs:", "110">>,
      <<"Longed", "BTC", "at", "100", "sl-", "90", "TPs:", "120">>,
      <<"Shorted", "ETH", "at", "100", "sl-", "110", "TPs:", "90">>,
      <<"Shorted", "ETH", "at", "110", "sl-", "120", "TPs:", "90">>,
      <<"Longed", "ETH", "at", "100", "sl-", "100", "TPs:", "110">>,
      <<"Random", "message">> }

\* The message texts of the parser: every text made of one direction part,
\* one entry part, one stop part and one target part, each possibly absent or
\* in a form only one of hasValidSignal and parseDiscordMessage accepts
DirectionParts == { <<>>, <<"Longed", "BTC">>, <<"SHORT">> }
EntryParts == { <<>>, <<"at", "100">>, <<"ETH", "Entry:", "100">>, <<"Entry:">> }
StopParts == { <<>>, <<"sl-", "90">>, <<"SL:", "BE">>, <<"SL", "90">> }
TargetParts == { <<>>, <<"TPs:", "110">>, <<"target", "120">> }

ParseTexts ==
    { d \o e \o st \o tg :
        d \in DirectionParts, e \in EntryParts, st \in StopParts, tg \in TargetParts }

Texts == SampleTexts \cup DecisionTexts \cup ParseTexts

\* hasValidSignal and parseDiscordMessage are pure: their results on the texts
\* of the feed, computed once
SampleValid == [t \in Texts |-> hasValidSignal(t)]
SampleParsed == [t \in Texts |-> parseDiscordMessage(t)]

\* The four tests of hasValidSignal on the texts of the parser, computed once
SamplePatterns ==
    [t \in ParseTexts |-> [direction |-> hasDirectionPattern(t),
                           entry     |-> hasEntryPattern(t),
                           stopLoss  |-> hasStopLossPattern(t),
                           target    |-> hasTargetPattern(t)]]

Abs(x) == IF x < 0 THEN -x ELSE x

\* parseFloat(config.minRiskRewardRatio.split(':')[0]), in tenths
RequiredRatioTenths(minRiskRewardRatio) ==
    CASE minRiskRewardRatio = "1:1"   -> 10
      [] minRiskRewardRatio = "1.5:1" -> 15
      [] minRiskRewardRatio = "2:1"   -> 20
      [] minRiskRewardRatio = "3:1"   -> 30

\* The comparison with <= in place of <
RatioBelow_OrEqual(reward, risk, requiredTenths) ==
    risk # 0 /\ reward * 10 <= requiredTenths * risk

\* actualRatio < requiredRatio in floating point: reward / 0 is Infinity or
\* NaN, and neither is below a number
RatioBelow(reward, risk, requiredTenths) ==
    risk # 0 /\ reward * 10 < requiredTenths * risk

\* shouldAutoExecuteSignal without the allowShort line
shouldAutoExecuteSignal_NoShortCheck(signalData, config) ==
    IF signalData.isLong /\ ~config.allowLong THEN FALSE
    ELSE IF config.allowedCryptos # {} /\ signalData.ticker \notin config.allowedCryptos
         THEN FALSE
    ELSE IF config.minRiskRewardRatio # "Any"
         THEN LET risk == Abs(signalData.entryPrice - signalData.stopLossPrice)
                  reward == IF signalData.isLong
                            THEN Abs(signalData.targetPrice - signalData.entryPrice)
                            ELSE Abs(signalData.entryPrice - signalData.targetPrice)
              IN  ~RatioBelow(reward, risk, RequiredRatioTenths(config.minRiskRewardRatio))
    ELSE TRUE

\* shouldAutoExecuteSignal that takes an empty allowedCryptos list to allow
\* no ticker
shouldAutoExecuteSignal_EmptyListBlocks(signalData, config) ==
    IF signalData.isLong /\ ~config.allowLong THEN FALSE
    ELSE IF ~signalData.isLong /\ ~config.allowShort THEN FALSE
    ELSE IF signalData.ticker \notin config.allowedCryptos THEN FALSE
    ELSE IF config.minRiskRewardRatio # "Any"
         THEN LET risk == Abs(signalData.entryPrice - signalData.stopLossPrice)
                  reward == IF signalData.isLong
                            THEN Abs(signalData.targetPrice - signalData.entryPrice)
                            ELSE Abs(signalData.entryPrice - signalData.targetPrice)
              IN  ~RatioBelow(reward, risk, RequiredRatioTenths(config.minRiskRewardRatio))
    ELSE TRUE

\* DiscordService.shouldAutoExecuteSignal
shouldAutoExecuteSignal(signalData, config) ==
    IF signalData.isLong /\ ~config.allowLong THEN FALSE
    ELSE IF ~signalData.isLong /\ ~config.allowShort THEN FALSE
    ELSE IF config.allowedCryptos # {} /\ signalData.ticker \notin config.allowedCryptos
         THEN FALSE
    ELSE IF config.minRiskRewardRatio # "Any"
         THEN LET risk == Abs(signalData.entryPrice - signalData.stopLossPrice)
                  reward == IF signalData.isLong
                            THEN Abs(signalData.targetPrice - signalData.entryPrice)
                            ELSE Abs(signalData.entryPrice - signalData.targetPrice)
              IN  ~RatioBelow(reward, risk, RequiredRatioTenths(config.minRiskRewardRatio))
    ELSE TRUE

\* processMessage without the getSignalByMessageId lookup
ProcessCreates_NoLookup(messageId, content) ==
    /\ SampleValid[content]
    /\ SampleParsed[content] # Null

\* DiscordService.processMessage: does this call create a signal
ProcessCreates(messageId, content) ==
    /\ SampleValid[content]
    /\ SampleParsed[content] # Null
    /\ ~getSignalByMessageId(messageId)

\* processMessage that stores a signal without prices for a text that passed
\* hasValidSignal and was not parsed
ProcessMessage_KeepsUnparsed(messageId, content) ==
    IF SampleValid[content] /\ ~getSignalByMessageId(messageId)
    THEN LET signalData == IF SampleParsed[content] # Null THEN SampleParsed[content][1]
                           ELSE [ticker |-> "", entryPrice |-> 0, targetPrice |-> 0,
                                 stopLossPrice |-> 0, isLong |-> FALSE, risk |-> 1]
         IN  /\ Load < MaxLoad
             /\ tradingSignals' = Append(tradingSignals, createSignal(
                    [ticker        |-> signalData.ticker,
                     entryPrice    |-> signalData.entryPrice,
                     targetPrice   |-> signalData.targetPrice,
                     stopLossPrice |-> signalData.stopLossPrice,
                     isLong        |-> signalData.isLong,
                     risk          |-> signalData.risk,
                     messageId     |-> messageId,
                     processed     |-> FALSE,
                     executed      |-> FALSE,
                     ignored       |-> FALSE]))
             /\ signalCurrentId' = signalCurrentId + 1
             /\ UNCHANGED <<tradeConfig, trades, tradeCurrentId, inflight, lastResp>>
    ELSE UNCHANGED storeVars

\* DiscordService.processMessage, reached from POST /api/discord/webhook, the
\* channel processing loop and the sample-signal route: what it does to the
\* store.  What it does after createSignal (reading the config,
\* shouldAutoExecuteSignal) ends in a console line and changes nothing in the
\* store.
ProcessMessage(messageId, content) ==
    IF ProcessCreates(messageId, content)
    THEN LET signalData == SampleParsed[content][1]
         IN  /\ Load < MaxLoad
             /\ tradingSignals' = Append(tradingSignals, createSignal(
                    [ticker        |-> signalData.ticker,
                     entryPrice    |-> signalData.entryPrice,
                     targetPrice   |-> signalData.targetPrice,
                     stopLossPrice |-> signalData.stopLossPrice,
                     isLong        |-> signalData.isLong,
                     risk          |-> signalData.risk,
                     messageId     |-> messageId,
                     processed     |-> FALSE,
                     executed      |-> FALSE,
                     ignored       |-> FALSE]))
             /\ signalCurrentId' = signalCurrentId + 1
             /\ UNCHANGED <<tradeConfig, trades, tradeCurrentId, inflight, lastResp>>
    ELSE UNCHANGED storeVars

\* processMessage that evaluates the filters without looking at autoExecute
ProcessLog_NoFlagCheck(messageId, content) ==
    IF ~SampleValid[content] THEN <<"NotValid">>
    ELSE IF SampleParsed[content] = Null THEN <<"ParseFailed">>
    ELSE IF getSignalByMessageId(messageId) THEN <<"AlreadyProcessed">>
    ELSE IF shouldAutoExecuteSignal(SampleParsed[content][1], tradeConfig)
         THEN <<"Created", "AutoExecuting">>
    ELSE <<"Created">>

\* DiscordService.processMessage: the console lines it writes after the
\* "Processing Discord message" line.  The config is read after createSignal,
\* in the same turn.
ProcessLog(messageId, content) ==
    IF ~SampleValid[content] THEN <<"NotValid">>
    ELSE IF SampleParsed[content] = Null THEN <<"ParseFailed">>
    ELSE IF getSignalByMessageId(messageId) THEN <<"AlreadyProcessed">>
    ELSE IF tradeConfig.autoExecute
            /\ shouldAutoExecuteSignal(SampleParsed[content][1], tradeConfig)
         THEN <<"Created", "AutoExecuting">>
    ELSE <<"Created">>

\* DiscordService.processMessage with its console output
ProcessMessageLogged(messageId, content) ==
    /\ ProcessMessage(messageId, content)
    /\ seenIds' = seenIds \cup {messageId}
    /\ lastLog' = ProcessLog(messageId, content)
    /\ UNCHANGED detector

\* The execute checks without the test of the ignored flag
ExecuteCheck_NoIgnored(signalId) ==
    IF ~HasSignal(signalId) THEN 404
    ELSE IF tradingSignals[signalId].executed THEN 400
    ELSE 0

\* POST /api/signals/:id/execute: the checks before the try block; the status
\* they answer with, 0 when they pass
ExecuteCheck(signalId) ==
    IF ~HasSignal(signalId) THEN 404
    ELSE IF tradingSignals[signalId].executed THEN 400
    ELSE IF tradingSignals[signalId].ignored THEN 400
    ELSE 0

\* POST /api/signals/:id/execute, up to the call of phemexService.executeTrade
ExecuteBegin(signalId) ==
    IF ExecuteCheck(signalId) # 0
    THEN /\ lastResp' = Resp("execute", signalId, ExecuteCheck(signalId), Null)
         /\ UNCHANGED <<tradeConfig, tradingSignals, signalCurrentId, trades,
                        tradeCurrentId, inflight>>
    ELSE /\ Load < MaxLoad
         /\ inflight' = inflight (+) SetToBag({Call("execute", signalId, Some(tradeConfig), Null)})
         /\ UNCHANGED <<tradeConfig, tradingSignals, signalCurrentId, trades,
                        tradeCurrentId, lastResp>>

\* The createTrade argument built from the config stored when the exchange
\* answers instead of the config the handler read before the call
ExecuteInsertTrade_LiveConfig(signalId, signal, config) ==
    [signalId      |-> signalId,
     ticker        |-> signal.ticker,
     tradeType     |-> tradeConfig.tradeType,
     isLong        |-> signal.isLong,
     leverage      |-> tradeConfig.leverage,
     entryPrice    |-> signal.entryPrice,
     targetPrice   |-> signal.targetPrice,
     stopLossPrice |-> signal.stopLossPrice,
     amount        |-> tradeConfig.amountPerTrade,
     currentPrice  |-> signal.entryPrice]

\* The createTrade argument built by the execute handler from its signal and
\* the config it read before the call
ExecuteInsertTrade(signalId, signal, config) ==
    [signalId      |-> signalId,
     ticker        |-> signal.ticker,
     tradeType     |-> config.tradeType,
     isLong        |-> signal.isLong,
     leverage      |-> config.leverage,
     entryPrice    |-> signal.entryPrice,
     targetPrice   |-> signal.targetPrice,
     stopLossPrice |-> signal.stopLossPrice,
     amount        |-> config.amountPerTrade,
     currentPrice  |-> signal.entryPrice]

\* The execute handler with markSignalExecuted moved in front of the exchange
\* call: the signal is marked whatever the exchange answers
ExecuteEnd_MarksBeforeCall(c, ok) ==
    /\ c \in DOMAIN inflight
    /\ c.kind = "execute"
    /\ inflight' = inflight (-) SetToBag({c})
    /\ tradingSignals' = markSignalExecuted(tradingSignals, c.id)
    /\ IF ok
       THEN /\ trades' = Append(trades, createTrade(
                   ExecuteInsertTrade(c.id, tradingSignals[c.id], c.cfg[1])))
            /\ tradeCurrentId' = tradeCurrentId + 1
            /\ lastResp' = Resp("execute", c.id, 200, Some(tradeCurrentId))
       ELSE /\ lastResp' = Resp("execute", c.id, 500, Null)
            /\ UNCHANGED <<trades, tradeCurrentId>>
    /\ UNCHANGED <<tradeConfig, signalCurrentId>>

\* POST /api/signals/:id/execute, from the exchange's answer: ok is the order
\* acknowledgement, ~ok the rejected promise caught by the handler
ExecuteEnd(c, ok) ==
    /\ c \in DOMAIN inflight
    /\ c.kind = "execute"
    /\ inflight' = inflight (-) SetToBag({c})
    /\ IF ok
       THEN /\ tradingSignals' = markSignalExecuted(tradingSignals, c.id)
            /\ trades' = Append(trades, createTrade(
                   ExecuteInsertTrade(c.id, tradingSignals[c.id], c.cfg[1])))
            /\ tradeCurrentId' = tradeCurrentId + 1
            /\ lastResp' = Resp("execute", c.id, 200, Some(tradeCurrentId))
       ELSE /\ lastResp' = Resp("execute", c.id, 500, Null)
            /\ UNCHANGED <<tradingSignals, trades, tradeCurrentId>>
    /\ UNCHANGED <<tradeConfig, signalCurrentId>>

\* POST /api/signals/:id/ignore: the checks; the status they answer with, 0
\* when they pass
IgnoreCheck(signalId) ==
    IF ~HasSignal(signalId) THEN 404
    ELSE IF tradingSignals[signalId].executed THEN 400
    ELSE 0

\* POST /api/signals/:id/ignore
IgnoreReq(signalId) ==
    /\ IF IgnoreCheck(signalId) # 0
       THEN /\ lastResp' = Resp("ignore", signalId, IgnoreCheck(signalId), Null)
            /\ UNCHANGED tradingSignals
       ELSE /\ tradingSignals' = markSignalIgnored(tradingSignals, signalId)
            /\ lastResp' = Resp("ignore", signalId, 200, Null)
    /\ UNCHANGED <<tradeConfig, signalCurrentId, trades, tradeCurrentId, inflight>>

\* The close checks without the test of the status
CloseCheck_NoStatus(tradeId) ==
    IF ~HasTrade(tradeId) THEN 404
    ELSE 0

\* POST /api/trades/:id/close: the checks before the try block; the status
\* they answer with, 0 when they pass
CloseCheck(tradeId) ==
    IF ~HasTrade(tradeId) THEN 404
    ELSE IF trades[tradeId].status # "open" THEN 400
    ELSE 0

\* The close handler that closes at the trade's target price
CloseBegin_AtTarget(tradeId) ==
    IF CloseCheck(tradeId) # 0
    THEN /\ lastResp' = Resp("close", tradeId, CloseCheck(tradeId), Null)
         /\ UNCHANGED <<tradeConfig, tradingSignals, signalCurrentId, trades,
                        tradeCurrentId, inflight>>
    ELSE /\ Load < MaxLoad
         /\ inflight' = inflight (+)
                SetToBag({Call("close", tradeId, Null, Some(trades[tradeId].targetPrice))})
         /\ UNCHANGED <<tradeConfig, tradingSignals, signalCurrentId, trades,
                        tradeCurrentId, lastResp>>

\* POST /api/trades/:id/close, up to the call of phemexService.closeTrade
CloseBegin(tradeId) ==
    IF CloseCheck(tradeId) # 0
    THEN /\ lastResp' = Resp("close", tradeId, CloseCheck(tradeId), Null)
         /\ UNCHANGED <<tradeConfig, tradingSignals, signalCurrentId, trades,
                        tradeCurrentId, inflight>>
    ELSE /\ Load < MaxLoad
         /\ inflight' = inflight (+)
                SetToBag({Call("close", tradeId, Null, Some(trades[tradeId].currentPrice))})
         /\ UNCHANGED <<tradeConfig, tradingSignals, signalCurrentId, trades,
                        tradeCurrentId, lastResp>>

\* The close handler with a store that drops the trade it closes (the latest
\* trade, the ids being the positions of a sequence)
CloseEnd_RemovesTrade(c, ok, time) ==
    /\ c \in DOMAIN inflight
    /\ c.kind = "close"
    /\ inflight' = inflight (-) SetToBag({c})
    /\ IF ok
       THEN /\ trades' = IF c.id = Len(trades)
                         THEN SubSeq(trades, 1, Len(trades) - 1)
                         ELSE [trades EXCEPT ![c.id] =
                                  closeTrade(trades[c.id], "manual", c.price[1], time)]
            /\ lastResp' = Resp("close", c.id, 200, Some(c.id))
       ELSE /\ lastResp' = Resp("close", c.id, 500, Null)
            /\ UNCHANGED trades
    /\ UNCHANGED <<tradeConfig, tradingSignals, signalCurrentId, tradeCurrentId>>

\* POST /api/trades/:id/close, from the exchange's answer; time is the clock
\* reading storage.closeTrade takes
CloseEnd(c, ok, time) ==
    /\ c \in DOMAIN inflight
    /\ c.kind = "close"
    /\ inflight' = inflight (-) SetToBag({c})
    /\ IF ok
       THEN /\ trades' = [trades EXCEPT ![c.id] =
                   closeTrade(trades[c.id], "manual", c.price[1], time)]
            /\ lastResp' = Resp("close", c.id, 200, Some(c.id))
       ELSE /\ lastResp' = Resp("close", c.id, 500, Null)
            /\ UNCHANGED trades
    /\ UNCHANGED <<tradeConfig, tradingSignals, signalCurrentId, tradeCurrentId>>

\* The requests the server takes.  This specification follows the store and
\* the responses and does not keep the console output.
Next ==
    \/ \E patch \in ConfigPatches : UpdateConfigReq(patch) /\ UNCHANGED <<logVars, detector>>
    \/ \E body \in SignalBodies : CreateSignalReq(body) /\ UNCHANGED <<logVars, detector>>
    \/ \E m \in MsgIds, content \in SampleTexts :
            ProcessMessage(m, content) /\ UNCHANGED <<logVars, detector>>
    \/ \E id \in SignalIds : ExecuteBegin(id) /\ UNCHANGED <<logVars, detector>>
    \/ \E c \in DOMAIN inflight, ok \in BOOLEAN : ExecuteEnd(c, ok) /\ UNCHANGED <<logVars, detector>>
    \/ \E id \in SignalIds : IgnoreReq(id) /\ UNCHANGED <<logVars, detector>>
    \/ \E id \in TradeIds : CloseBegin(id) /\ UNCHANGED <<logVars, detector>>
    \/ \E c \in DOMAIN inflight, ok \in BOOLEAN, time \in Times :
            CloseEnd(c, ok, time) /\ UNCHANGED <<logVars, detector>>

Spec == Init /\ [][Next]_vars

-----------------------------------------------------------------------------
(* Ingestion and the auto-execute decision: processMessage with its        *)
(* console output, under every config the decision reads.                  *)

IngestMsgIds == {"m1", "m2"}

\* The maximum of simultaneous trades the operator configures (the trade
\* config of the server has no such field)
maxSimultaneousTrades == 1

\* PATCH /api/config bodies that set one of the fields the decision reads
IngestPatches ==
    { [autoExecute |-> b] : b \in BOOLEAN } \cup
    { [allowLong |-> b] : b \in BOOLEAN } \cup
    { [allowShort |-> b] : b \in BOOLEAN } \cup
    { [allowedCryptos |-> x] : x \in {{}, {"ETH"}} } \cup
    { [minRiskRewardRatio |-> r] : r \in {"Any", "1.5:1", "2:1"} }

IngestNext ==
    \/ \E patch \in IngestPatches : UpdateConfigReq(patch) /\ UNCHANGED <<logVars, detector>>
    \/ \E m \in IngestMsgIds, content \in DecisionTexts : ProcessMessageLogged(m, content)

IngestSpec == Init /\ [][IngestNext]_vars

-----------------------------------------------------------------------------
(* hasValidSignal and parseDiscordMessage as processMessage applies them,  *)
(* on the texts of ParseTexts, under the initial config.                   *)

ParseNext ==
    \E m \in IngestMsgIds, content \in ParseTexts : ProcessMessageLogged(m, content)

ParseSpec == Init /\ [][ParseNext]_vars

-----------------------------------------------------------------------------
(* The parser's test script: hasValidSignal and parseDiscordMessage        *)
(* applied to a text, whatever hasValidSignal answers, and the two results *)
(* written to the console.                                                 *)

\* Texts with a price written as 0, and a text with a risk clause of 2%
ZeroPriceTexts ==
    { <<"Longed", "BTC", "at", "0", "sl-", "90", "TPs:", "110">>,
      <<"Longed", "BTC", "at", "100", "sl-", "0", "TPs:", "110">>,
      <<"Longed", "BTC", "at", "100", "sl-", "90", "TPs:", "0">> }

RiskTexts ==
    { <<"Shorted", "ETH", "at", "100", "sl-", "110", "(2%", "risk)", "TPs:", "90">> }

ParserTestTexts == Texts \cup ZeroPriceTexts \cup RiskTexts

\* One test of the script: the console record is the text, the answer of
\* hasValidSignal and the result of parseDiscordMessage
TestParser(content) ==
    /\ lastLog' = <<content, hasValidSignal(content), parseDiscordMessage(content)>>
    /\ UNCHANGED <<storeVars, seenIds, detector>>

ParserTestNext == \E content \in ParserTestTexts : TestParser(content)

ParserTestSpec == Init /\ [][ParserTestNext]_vars

-----------------------------------------------------------------------------
(* POST /api/discord/process-channel/:channelId: processChannelMessages    *)
(* fetches the channel's messages from the Discord API (the handler is     *)
(* suspended in the fetch) and then calls processMessage on each of them   *)
(* in turn; the awaits inside the loop are on MemStorage, so the loop runs *)
(* without another handler in between.                                     *)

\* What the fetch delivers at most
MaxFetched == 2

\* An element of the fetched array (the JSON body of the Discord API's
\* answer): a message, or Null for a null element
FetchedItems ==
    {Null} \cup {Some([id |-> m, content |-> t]) : m \in IngestMsgIds, t \in SampleTexts}

\* The outcomes of fetchMessages: Null when it throws, or Some(messages)
FetchResults ==
    {Null} \cup {Some(messages) :
                    messages \in UNION {[1..n -> FetchedItems] : n \in 0..MaxFetched}}

\* processMessage as a function of the stored signals: the signals afterwards
ProcessedSignals(signals, message) ==
    IF /\ SampleValid[message.content]
       /\ SampleParsed[message.content] # Null
       /\ ~(\E id \in DOMAIN signals : signals[id].messageId = message.id)
    THEN LET signalData == SampleParsed[message.content][1]
         IN  Append(signals, createSignal(
                 [ticker        |-> signalData.ticker,
                  entryPrice    |-> signalData.entryPrice,
                  targetPrice   |-> signalData.targetPrice,
                  stopLossPrice |-> signalData.stopLossPrice,
                  isLong        |-> signalData.isLong,
                  risk          |-> signalData.risk,
                  messageId     |-> message.id,
                  processed     |-> FALSE,
                  executed      |-> FALSE,
                  ignored       |-> FALSE]))
    ELSE signals

\* processMessage as a function of the stored signals: its console line after
\* the "Processing Discord message" line
ProcessedLine(signals, message) ==
    IF ~SampleValid[message.content] THEN "NotValid"
    ELSE IF SampleParsed[message.content] = Null THEN "ParseFailed"
    ELSE IF \E id \in DOMAIN signals : signals[id].messageId = message.id
         THEN "AlreadyProcessed"
    ELSE "Created"

\* processChannelMessages: the signals afterwards, the console lines and the
\* result: Some(processedCount), Null standing for an exception passed to the
\* caller.  processMessage throws on a null element (message.id), and so does
\* the catch block inside the loop, whose console line reads message.id again:
\* the exception leaves the loop and reaches the outer catch, which returns 0.
processChannelMessages(signals, fetched) ==
    IF fetched = Null
    THEN [signals |-> signals, lines |-> <<"FetchFailed">>, result |-> Some(0)]
    ELSE LET messages == fetched[1]
             stop == FirstIndex({k \in 1..Len(messages) : messages[k] = Null})
             n == IF stop = 0 THEN Len(messages) ELSE stop - 1
             after[k \in 0..n] ==
                 IF k = 0 THEN signals
                 ELSE ProcessedSignals(after[k - 1], messages[k][1])
         IN  [signals |-> after[n],
              lines   |-> [k \in 1..n |-> ProcessedLine(after[k - 1], messages[k][1])]
                              \o (IF stop = 0 THEN <<>> ELSE <<"ChannelFailed">>),
              result  |-> Some(IF stop = 0 THEN n ELSE 0)]

\* The response of the process-channel route: 200 with the count, or the
\* answer of its catch block when processChannelMessages throws
ChannelResp(result) ==
    IF result = Null
    THEN [kind |-> "channel", id |-> 0, status |-> 500, tradeId |-> Null, processedCount |-> 0]
    ELSE [kind |-> "channel", id |-> 0, status |-> 200, tradeId |-> Null,
          processedCount |-> result[1]]

\* POST /api/discord/process-channel/:channelId, up to the fetch
ChannelBegin ==
    /\ Load < MaxLoad
    /\ inflight' = inflight (+) SetToBag({Call("channel", 0, Null, Null)})
    /\ UNCHANGED <<tradeConfig, tradingSignals, signalCurrentId, trades, tradeCurrentId,
                   lastResp, seenIds, lastLog, detector>>

\* POST /api/discord/process-channel/:channelId, from the outcome of the fetch
ChannelEnd(c, fetched) ==
    /\ c \in DOMAIN inflight
    /\ c.kind = "channel"
    /\ inflight' = inflight (-) SetToBag({c})
    /\ LET run == processChannelMessages(tradingSignals, fetched)
       IN  /\ tradingSignals' = run.signals
           /\ signalCurrentId' = signalCurrentId + (Len(run.signals) - Len(tradingSignals))
           /\ lastLog' = run.lines
           /\ lastResp' = ChannelResp(run.result)
    /\ seenIds' = seenIds \cup
           (IF fetched = Null THEN {}
            ELSE {fetched[1][k][1].id : k \in {j \in DOMAIN fetched[1] : fetched[1][j] # Null}})
    /\ UNCHANGED <<tradeConfig, trades, tradeCurrentId, detector>>

ChannelNext ==
    \/ ChannelBegin
    \/ \E c \in DOMAIN inflight, fetched \in FetchResults : ChannelEnd(c, fetched)

ChannelSpec == Init /\ [][ChannelNext]_vars

-----------------------------------------------------------------------------
(* MemStorage.closeTrade as a function of the trade and the close price.   *)
(* The close route only ever passes the trade's own currentPrice; here the *)
(* storage method is called with the close prices of PnlClosePrices.  The  *)
(* initial states are the stores with one executed signal and its open     *)
(* trade, for the entry prices, directions, amounts and leverages below    *)
(* (all chosen so that the code's floating-point quotients are whole).     *)

PnlEntryPrices == {40, 50, 100}
PnlAmounts == {100, 200}
PnlLeverages == {1, 5, 10}
PnlClosePrices == {90, 100, 110, 120}

PnlInit ==
    \E isLong \in BOOLEAN, entry \in PnlEntryPrices,
       amount \in PnlAmounts, leverage \in PnlLeverages :
        LET config == updateTradeConfig(InitTradeConfig,
                          [amountPerTrade |-> amount, leverage |-> leverage])
            signal == createSignal(
                          [ticker |-> "BTC", entryPrice |-> entry, targetPrice |-> 110,
                           stopLossPrice |-> 90, isLong |-> isLong, risk |-> 1,
                           messageId |-> "m1", processed |-> FALSE, executed |-> FALSE,
                           ignored |-> FALSE])
        IN  /\ tradeConfig = config
            /\ tradingSignals = markSignalExecuted(<<signal>>, 1)
            /\ signalCurrentId = 2
            /\ trades = <<createTrade(ExecuteInsertTrade(1, signal, config))>>
            /\ tradeCurrentId = 2
            /\ inflight = EmptyBag
            /\ lastResp = Resp("execute", 1, 200, Some(1))
            /\ seenIds = {}
            /\ lastLog = <<>>
            /\ detector = DetectorOff

\* storage.closeTrade(tradeId, "manual", closePrice, closeData) on an open trade
StorageCloseTrade(tradeId, closePrice, time) ==
    /\ HasTrade(tradeId)
    /\ trades[tradeId].status = "open"
    /\ trades' = [trades EXCEPT ![tradeId] =
                     closeTrade(trades[tradeId], "manual", closePrice, time)]
    /\ UNCHANGED <<tradeConfig, tradingSignals, signalCurrentId, tradeCurrentId,
                   inflight, lastResp, seenIds, lastLog, detector>>

PnlNext == \E tradeId \in DOMAIN trades, closePrice \in PnlClosePrices :
               StorageCloseTrade(tradeId, closePrice, 1)

PnlSpec == PnlInit /\ [][PnlNext]_vars

-----------------------------------------------------------------------------
(* SignalDetector: the detection loop of the visual feed.  A polling timer *)
(* starts a cycle; a cycle scans the messages on screen one by one,        *)
(* reveals a locked message by a click on its control, waits for the       *)
(* settle delay, scrolls to the bottom and classifies the revealed text,   *)
(* and ends when every message on screen has been scanned.                 *)

\* The trader allow-list and the authors on screen
AllowList == {"@Johnny"}
Authors == {"@Johnny", "@Stranger"}

\* The messages on screen
FeedLen == 2

\* A message on screen: its author, whether its text has the "content is
\* hidden" phrase, the rest of its visible text, whether the locator finds its
\* reveal control, and the text a click on the control reveals
FeedMessages ==
    { [author |-> a, hidden |-> TRUE, shown |-> <<>>, control |-> c, behind |-> t] :
        a \in Authors, c \in BOOLEAN, t \in SampleTexts } \cup
    { [author |-> a, hidden |-> h, shown |-> t, control |-> c, behind |-> t] :
        a \in Authors, h \in BOOLEAN, c \in BOOLEAN, t \in SampleTexts }

\* An already-revealed marker in the visible text ("entry:", "sl:")
RevealedMarker(text) == \E i \in DOMAIN text : text[i] \in {"Entry:", "SL:"}

\* The classification that takes the hidden phrase alone for locked
Locked_PhraseOnly(message) == message.hidden

\* The classification of a candidate: locked when the text has the hidden
\* phrase and no already-revealed marker, unlocked otherwise
Locked(message) == message.hidden /\ ~RevealedMarker(message.shown)

\* The terminal state of an unlocked message: gated_pass and parse decide
Terminal(text) ==
    IF SampleValid[text] /\ SampleParsed[text] # Null THEN "ingested" ELSE "discarded"

DetectInit ==
    /\ tradeConfig = InitTradeConfig
    /\ tradingSignals = <<>>
    /\ signalCurrentId = 1
    /\ trades = <<>>
    /\ tradeCurrentId = 1
    /\ inflight = EmptyBag
    /\ lastResp = NoResp
    /\ seenIds = {}
    /\ lastLog = <<>>
    /\ \E feed \in [1..FeedLen -> FeedMessages] :
          detector = [DetectorOff EXCEPT !.feed = feed,
                                         !.outcome = [m \in 1..FeedLen |-> "unseen"]]

\* The polling timer that starts a cycle whether or not one is running
CycleBegin_Reentrant ==
    /\ detector.running < 2
    /\ detector' = [detector EXCEPT !.running = @ + 1, !.scanned = {}]
    /\ UNCHANGED <<storeVars, logVars>>

\* The polling timer: a cycle begins when none is running
CycleBegin ==
    /\ detector.running = 0
    /\ detector' = [detector EXCEPT !.running = 1, !.scanned = {}]
    /\ UNCHANGED <<storeVars, logVars>>

\* One message of the scan.  A seen id is passed over; an author off the
\* allow-list makes no candidate; a locked message is clicked when the
\* locator finds its control and stays pending when it does not; an unlocked
\* message goes through the gate and the parser to a terminal state.
Scan(m) ==
    /\ detector.running > 0
    /\ detector.reveal = Null
    /\ m \in DOMAIN detector.feed
    /\ m \notin detector.scanned
    /\ LET message == detector.feed[m]
       IN  detector' =
             IF m \in detector.seen \/ message.author \notin AllowList
             THEN [detector EXCEPT !.scanned = @ \cup {m}]
             ELSE IF Locked(message)
             THEN IF message.control
                  THEN [detector EXCEPT !.scanned = @ \cup {m}, !.reveal = Some(m)]
                  ELSE [detector EXCEPT !.scanned = @ \cup {m}, !.outcome[m] = "pending"]
             ELSE [detector EXCEPT !.scanned = @ \cup {m},
                                   !.outcome[m] = Terminal(message.shown),
                                   !.seen = @ \cup {m}]
    /\ UNCHANGED <<storeVars, logVars>>

\* The end of a reveal: the settle delay has passed, the feed has been
\* scrolled to the bottom and the revealed text is classified (it has no
\* hidden phrase any more, so it is unlocked)
RevealSettled(m) ==
    /\ detector.reveal = Some(m)
    /\ LET revealed == [detector.feed[m] EXCEPT !.hidden = FALSE, !.control = FALSE,
                                                 !.shown = detector.feed[m].behind]
       IN  detector' = [detector EXCEPT !.reveal = Null,
                                        !.feed[m] = revealed,
                                        !.outcome[m] = Terminal(revealed.shown),
                                        !.seen = @ \cup {m}]
    /\ UNCHANGED <<storeVars, logVars>>

\* A reveal whose click does not return in time: gated_fail, the message is
\* scanned again in the next cycle
RevealTimedOut(m) ==
    /\ detector.reveal = Some(m)
    /\ detector' = [detector EXCEPT !.reveal = Null, !.outcome[m] = "pending"]
    /\ UNCHANGED <<storeVars, logVars>>

\* The end of a cycle: every message on screen has been scanned
CycleEnd ==
    /\ detector.running > 0
    /\ detector.reveal = Null
    /\ detector.scanned = DOMAIN detector.feed
    /\ detector' = [detector EXCEPT !.running = @ - 1]
    /\ UNCHANGED <<storeVars, logVars>>

\* The screen: the control of a message with hidden content gets rendered
ControlRendered(m) ==
    /\ m \in DOMAIN detector.feed
    /\ detector.feed[m].hidden
    /\ ~detector.feed[m].control
    /\ detector' = [detector EXCEPT !.feed[m].control = TRUE]
    /\ UNCHANGED <<storeVars, logVars>>

DetectNext ==
    \/ CycleBegin
    \/ \E m \in 1..FeedLen : Scan(m)
    \/ \E m \in 1..FeedLen : RevealSettled(m)
    \/ \E m \in 1..FeedLen : RevealTimedOut(m)
    \/ CycleEnd
    \/ \E m \in 1..FeedLen : ControlRendered(m)

DetectSpec == DetectInit /\ [][DetectNext]_vars

-----------------------------------------------------------------------------
(* Properties                                                              *)

\* A signal is pending while neither lifecycle flag is set
Pending(signal) == ~signal.executed /\ ~signal.ignored

\* The trades that reference a signal
TradesOf(signalId) == {t \in DOMAIN trades : trades[t].signalId = signalId}

\* A step in which a handler suspended in the exchange call resumes and ends
CallEnds == BagCardinality(inflight') < BagCardinality(inflight)

C3_IdempotentIngestion ==
    [][\A m \in MsgIds, content \in SampleTexts :
          /\ getSignalByMessageId(m) =>
                \E id \in DOMAIN tradingSignals' : tradingSignals'[id].messageId = m
          /\ ProcessMessage(m, content) =>
              /\ getSignalByMessageId(m) => tradingSignals' = tradingSignals
              /\ tradingSignals' # tradingSignals =>
                    /\ ~getSignalByMessageId(m)
                    /\ Len(tradingSignals') = Len(tradingSignals) + 1
                    /\ SubSeq(tradingSignals', 1, Len(tradingSignals)) = tradingSignals
                    /\ tradingSignals'[Len(tradingSignals')].messageId = m]_vars

\* C3 witness: a message id has been ingested, one signal is stored and the
\* store has room for more, so a processMessage call that observes the id
\* again is not kept from creating a signal by the bound
C3_Witness ==
    /\ \E m \in MsgIds : getSignalByMessageId(m)
    /\ Len(tradingSignals) = 1
    /\ Load < MaxLoad

\* C4 as stated: a trade is closed exactly when closeTime, closeReason,
\* pnlAmount and pnlPercent are all set, and while it is open all four are null.
C4_OpenAllNull ==
    \A t \in DOMAIN trades :
        LET tr == trades[t]
            allSet == /\ tr.closeTime # Null /\ tr.closeReason # Null
                      /\ tr.pnlAmount # Null /\ tr.pnlPercent # Null
        IN  /\ tr.status = "closed" <=> allSet
            /\ tr.status = "open" =>
                  /\ tr.closeTime = Null /\ tr.closeReason = Null
                  /\ tr.pnlAmount = Null /\ tr.pnlPercent = Null

\* C4 as amended: a trade is open or closed; it is closed exactly when
\* closeTime, closeReason, pnlAmount and pnlPercent are all set; while it is
\* open closeTime and closeReason are null and pnlAmount and pnlPercent are 0.
C4_CloseFieldsIffClosed ==
    \A t \in DOMAIN trades :
        LET tr == trades[t]
            allSet == /\ tr.closeTime # Null /\ tr.closeReason # Null
                      /\ tr.pnlAmount # Null /\ tr.pnlPercent # Null
        IN  /\ tr.status \in {"open", "closed"}
            /\ tr.status = "closed" <=> allSet
            /\ tr.status = "open" =>
                  /\ tr.closeTime = Null /\ tr.closeReason = Null
                  /\ tr.pnlAmount = Some(0) /\ tr.pnlPercent = Some(0)

\* C4 witness: an open trade and a closed trade are stored together
C4_Witness ==
    /\ \E t \in DOMAIN trades : trades[t].status = "open"
    /\ \E t \in DOMAIN trades : trades[t].status = "closed"

C6_FailedExecuteChangesNothing ==
    [][(CallEnds /\ lastResp'.kind = "execute") =>
          LET id == lastResp'.id
          IN  \/ /\ lastResp'.status = 500
                 /\ tradingSignals' = tradingSignals
                 /\ trades' = trades
                 /\ Pending(tradingSignals[id]) => Pending(tradingSignals'[id])
              \/ /\ lastResp'.status = 200
                 /\ tradingSignals'[id].executed
                 /\ Len(trades') = Len(trades) + 1]_vars

\* C6 witness: an execute request has been answered 500, its signal is pending
\* and no trade references it
C6_Witness ==
    /\ lastResp.kind = "execute"
    /\ lastResp.status = 500
    /\ Pending(tradingSignals[lastResp.id])
    /\ TradesOf(lastResp.id) = {}

\* C7: an execute request is answered 404 when the signal id is unknown and 400
\* when the signal is executed or ignored, and a step that answers an execute
\* request 404 or 400 starts no exchange call and changes no signal and no trade.
C7_ExecuteRejections ==
    [][/\ \A id \in SignalIds :
             ExecuteBegin(id) =>
                 /\ ~HasSignal(id) => lastResp' = Resp("execute", id, 404, Null)
                 /\ (HasSignal(id) /\ ~Pending(tradingSignals[id])) =>
                        lastResp' = Resp("execute", id, 400, Null)
       /\ (lastResp' # lastResp /\ lastResp'.kind = "execute"
              /\ lastResp'.status \in {400, 404}) =>
             /\ inflight' = inflight
             /\ tradingSignals' = tradingSignals
             /\ trades' = trades]_vars

\* C7 witness: an execute request for an ignored signal has been answered 400
C7_Witness ==
    /\ lastResp.kind = "execute"
    /\ lastResp.status = 400
    /\ tradingSignals[lastResp.id].ignored
    /\ ~tradingSignals[lastResp.id].executed

\* C8: an ignore request for a signal that is not pending (executed or ignored)
\* is answered 400, as an execute request is.
C8_IgnoreRejectsTerminal ==
    [][\A id \in SignalIds :
          (IgnoreReq(id) /\ HasSignal(id) /\ ~Pending(tradingSignals[id])) =>
              lastResp'.status = 400]_vars

\* C9: a close request is answered 404 when the trade id is unknown and 400
\* when the trade is not open, and a step that answers a close request 404 or
\* 400 starts no exchange call and changes no trade.
C9_CloseRejections ==
    [][/\ \A id \in TradeIds :
             CloseBegin(id) =>
                 /\ ~HasTrade(id) => lastResp' = Resp("close", id, 404, Null)
                 /\ (HasTrade(id) /\ trades[id].status # "open") =>
                        lastResp' = Resp("close", id, 400, Null)
       /\ (lastResp' # lastResp /\ lastResp'.kind = "close"
              /\ lastResp'.status \in {400, 404}) =>
             /\ inflight' = inflight
             /\ trades' = trades]_vars

\* C9 witness: a close request for a closed trade has been answered 400
C9_Witness ==
    /\ lastResp.kind = "close"
    /\ lastResp.status = 400
    /\ trades[lastResp.id].status = "closed"

\* C10: every trade references a stored signal that is executed, and no state
\* between two steps has a signal marked executed that no trade references.
C10_TradeIffExecuted ==
    /\ \A t \in DOMAIN trades :
          /\ HasSignal(trades[t].signalId)
          /\ tradingSignals[trades[t].signalId].executed
    /\ \A id \in DOMAIN tradingSignals :
          tradingSignals[id].executed => TradesOf(id) # {}

\* C10 witness: a signal has been executed next to one that has not
C10_Witness ==
    /\ \E id \in DOMAIN tradingSignals : tradingSignals[id].executed
    /\ \E id \in DOMAIN tradingSignals : ~tradingSignals[id].executed

\* C11: an execute handler uses the one config it read before the exchange
\* call: the order it sends is built from that config (the cfg of the call in
\* flight), the trade it records when the exchange answers has that config's
\* amount and leverage whatever the stored config is by then, and an execute
\* request that passes the checks takes the config stored at that moment.
C11_ConfigSnapshot ==
    [][/\ \A c \in DOMAIN inflight :
             (c.kind = "execute" /\ ExecuteEnd(c, TRUE)) =>
                 /\ trades'[Len(trades')].amount = c.cfg[1].amountPerTrade
                 /\ trades'[Len(trades')].leverage = c.cfg[1].leverage
                 /\ trades'[Len(trades')].tradeType = c.cfg[1].tradeType
       /\ \A id \in SignalIds :
             (ExecuteBegin(id) /\ ExecuteCheck(id) = 0) =>
                 Call("execute", id, Some(tradeConfig), Null) \in DOMAIN inflight']_vars

\* C11 witness: the config has been updated while an execute handler is
\* suspended in its exchange call with the config it read before
C11_Witness ==
    \E c \in DOMAIN inflight :
        /\ c.kind = "execute"
        /\ c.cfg[1].amountPerTrade # tradeConfig.amountPerTrade

\* C12: closeTrade records pnlAmount = ((closePrice - entryPrice) / entryPrice)
\* * amount * leverage for a long trade and ((entryPrice - closePrice) /
\* entryPrice) * amount * leverage for a short one, and pnlPercent =
\* (pnlAmount / amount) * 100; long 100 -> 110 and short 100 -> 90 with amount
\* 100 and leverage 5 both record 50 and 50.
C12_PnlFormula ==
    \A t \in DOMAIN trades :
        LET tr == trades[t]
            diff == IF tr.isLong THEN tr.currentPrice - tr.entryPrice
                    ELSE tr.entryPrice - tr.currentPrice
        IN  tr.status = "closed" =>
              /\ tr.pnlAmount[1] * tr.entryPrice = diff * tr.amount * tr.leverage
              /\ tr.pnlPercent[1] * tr.amount = tr.pnlAmount[1] * 100
              /\ (tr.entryPrice = 100 /\ tr.amount = 100 /\ tr.leverage = 5 /\
                  tr.currentPrice = (IF tr.isLong THEN 110 ELSE 90)) =>
                    (tr.pnlAmount = Some(50) /\ tr.pnlPercent = Some(50))

\* C12 witness: the short trade opened at 100 with amount 100 and leverage 5
\* has been closed at 90
C12_Witness ==
    \E t \in DOMAIN trades :
        /\ trades[t].status = "closed" /\ ~trades[t].isLong
        /\ trades[t].entryPrice = 100 /\ trades[t].currentPrice = 90
        /\ trades[t].amount = 100 /\ trades[t].leverage = 5

\* The lines of a console record
Lines(log) == {log[i] : i \in DOMAIN log}

\* A processMessage call that stores a new signal
Ingests(m, content) == ProcessMessageLogged(m, content) /\ ProcessCreates(m, content)

\* C13: a message id that processMessage has seen (whatever the outcome: not
\* a candidate, not parsed, stored) never produces a signal later, even with
\* another text, and the set of seen ids never shrinks.
C13_SeenIdNeverIngested ==
    [][/\ seenIds \subseteq seenIds'
       /\ \A m \in seenIds :
             \A id \in DOMAIN tradingSignals' :
                 tradingSignals'[id].messageId = m => id \in DOMAIN tradingSignals]_vars

\* C14: when autoExecute is on and a newly stored signal passes the filters of
\* shouldAutoExecuteSignal, the processMessage call that stored it starts its
\* execution: after the call the signal is executed, or an order for it is
\* with the exchange.
C14_AutoExecuteStarts ==
    [][\A m \in IngestMsgIds, content \in DecisionTexts :
          (Ingests(m, content) /\ tradeConfig.autoExecute
              /\ shouldAutoExecuteSignal(SampleParsed[content][1], tradeConfig)) =>
             LET id == Len(tradingSignals')
             IN  \/ /\ tradingSignals'[id].executed
                    /\ \E t \in DOMAIN trades' : trades'[t].signalId = id
                 \/ \E c \in DOMAIN inflight' : c.kind = "execute" /\ c.id = id]_vars

\* C15: while autoExecute is off a processMessage call executes nothing: it
\* writes no auto-execute line, starts no order, creates no trade, leaves the
\* stored signals as they are, and the signal it stores is pending.
C15_ManualModeNeverExecutes ==
    [][\A m \in IngestMsgIds, content \in DecisionTexts :
          (ProcessMessageLogged(m, content) /\ ~tradeConfig.autoExecute) =>
             /\ "AutoExecuting" \notin Lines(lastLog')
             /\ trades' = trades
             /\ inflight' = inflight
             /\ \A id \in DOMAIN tradingSignals' :
                   IF id \in DOMAIN tradingSignals
                   THEN tradingSignals'[id] = tradingSignals[id]
                   ELSE Pending(tradingSignals'[id])]_vars

\* C15 witness: with autoExecute off, and filters that pass everything, the
\* latest processMessage call stored a signal, which is pending with no trade
C15_Witness ==
    /\ ~tradeConfig.autoExecute
    /\ tradeConfig.allowLong /\ tradeConfig.allowShort
    /\ tradeConfig.allowedCryptos = {} /\ tradeConfig.minRiskRewardRatio = "Any"
    /\ lastLog = <<"Created">>
    /\ Len(tradingSignals) = 1 /\ Pending(tradingSignals[1])
    /\ trades = <<>>

\* C16: the number of signals with an open trade never exceeds the configured
\* maximum of simultaneous trades.
C16_OpenTradesWithinMaximum ==
    Cardinality({trades[t].signalId : t \in {u \in DOMAIN trades : trades[u].status = "open"}})
        <= maxSimultaneousTrades

\* C17: the decision on a newly stored signal is skip (no auto-execute line,
\* shouldAutoExecuteSignal false) when the signal is long and allowLong is off
\* and when it is short and allowShort is off, whatever the other settings.
C17_DirectionFilter ==
    [][\A m \in IngestMsgIds, content \in DecisionTexts :
          Ingests(m, content) =>
             LET sd == SampleParsed[content][1]
             IN  ((sd.isLong /\ ~tradeConfig.allowLong)
                    \/ (~sd.isLong /\ ~tradeConfig.allowShort)) =>
                     /\ ~shouldAutoExecuteSignal(sd, tradeConfig)
                     /\ "AutoExecuting" \notin Lines(lastLog')]_vars

\* C17 witness: a short signal has been stored without an auto-execute line
\* while autoExecute is on, allowShort is off and the ticker and risk:reward
\* filters let everything pass
C17_Witness ==
    /\ tradeConfig.autoExecute /\ ~tradeConfig.allowShort
    /\ tradeConfig.allowedCryptos = {} /\ tradeConfig.minRiskRewardRatio = "Any"
    /\ lastLog = <<"Created">>
    /\ tradingSignals # <<>>
    /\ ~tradingSignals[Len(tradingSignals)].isLong

\* C18: with autoExecute on and the direction and risk:reward filters passing,
\* the decision on a newly stored signal is execute exactly when allowedCryptos
\* is empty or contains the signal's ticker; a ticker outside a non-empty list
\* is skipped whatever the other settings.
C18_TickerFilter ==
    [][\A m \in IngestMsgIds, content \in DecisionTexts :
          Ingests(m, content) =>
             LET sd == SampleParsed[content][1]
                 listed == tradeConfig.allowedCryptos = {}
                              \/ sd.ticker \in tradeConfig.allowedCryptos
                 others == /\ tradeConfig.autoExecute
                           /\ tradeConfig.minRiskRewardRatio = "Any"
                           /\ IF sd.isLong THEN tradeConfig.allowLong
                              ELSE tradeConfig.allowShort
             IN  /\ others => ("AutoExecuting" \in Lines(lastLog') <=> listed)
                 /\ ~listed => "AutoExecuting" \notin Lines(lastLog')]_vars

\* C18 witness: with the list {"ETH"} and autoExecute on, a BTC signal has been
\* stored without an auto-execute line
C18_Witness ==
    /\ tradeConfig.autoExecute /\ tradeConfig.allowLong /\ tradeConfig.allowShort
    /\ tradeConfig.allowedCryptos = {"ETH"} /\ tradeConfig.minRiskRewardRatio = "Any"
    /\ lastLog = <<"Created">>
    /\ tradingSignals # <<>>
    /\ tradingSignals[Len(tradingSignals)].ticker = "BTC"

\* C19: with autoExecute on and the direction and ticker filters passing, a
\* newly stored signal is skipped exactly when minRiskRewardRatio is not "Any"
\* and reward / risk is below it, with risk = |entry - stop| and reward =
\* |target - entry| (the same value for long and short); a risk of 0 gives no
\* ratio below anything.
C19_RiskRewardFilter ==
    [][\A m \in IngestMsgIds, content \in DecisionTexts :
          Ingests(m, content) =>
             LET sd == SampleParsed[content][1]
                 risk == Abs(sd.entryPrice - sd.stopLossPrice)
                 reward == Abs(sd.targetPrice - sd.entryPrice)
                 minimum == tradeConfig.minRiskRewardRatio
                 below == /\ minimum # "Any"
                          /\ risk > 0
                          /\ \/ minimum = "1.5:1" /\ 2 * reward < 3 * risk
                             \/ minimum = "2:1" /\ reward < 2 * risk
                 others == /\ tradeConfig.autoExecute
                           /\ tradeConfig.allowedCryptos = {}
                                 \/ sd.ticker \in tradeConfig.allowedCryptos
                           /\ IF sd.isLong THEN tradeConfig.allowLong
                              ELSE tradeConfig.allowShort
             IN  others => ("AutoExecuting" \in Lines(lastLog') <=> ~below)]_vars

\* C19 witness: with the minimum 2:1 and autoExecute on, a signal with reward
\* 20 and risk 10 has been stored with an auto-execute line
C19_Witness ==
    /\ tradeConfig.autoExecute /\ tradeConfig.minRiskRewardRatio = "2:1"
    /\ lastLog = <<"Created", "AutoExecuting">>
    /\ tradingSignals # <<>>
    /\ LET sg == tradingSignals[Len(tradingSignals)]
       IN  /\ Abs(sg.targetPrice - sg.entryPrice) = 20
           /\ Abs(sg.entryPrice - sg.stopLossPrice) = 10

\* C20: hasValidSignal is true exactly when at least 3 of the 4 patterns
\* (direction keyword, entry price, stop loss, target price) match the text:
\* processMessage stops at its candidate check exactly for the texts in which
\* no three of the four match.
C20_ThreeOfFour ==
    [][\A m \in IngestMsgIds, content \in ParseTexts :
          ProcessMessageLogged(m, content) =>
             LET d == SamplePatterns[content].direction
                 e == SamplePatterns[content].entry
                 st == SamplePatterns[content].stopLoss
                 tg == SamplePatterns[content].target
                 threeOfFour == \/ d /\ e /\ st
                                \/ d /\ e /\ tg
                                \/ d /\ st /\ tg
                                \/ e /\ st /\ tg
             IN  /\ SampleValid[content] <=> threeOfFour
                 /\ lastLog' = <<"NotValid">> <=> ~threeOfFour]_vars

\* C20 witness: the latest message passed the candidate check and was then
\* not parsed, and nothing is stored
C20_Witness ==
    /\ lastLog = <<"ParseFailed">>
    /\ tradingSignals = <<>>

\* The prices a text gives after one of the keywords: the values of the number
\* tokens that follow a keyword token
PricesAfter(text, keywords) ==
    {parseFloat(text[i + 1]) :
        i \in {j \in 1..(Len(text) - 1) : text[j] \in keywords /\ text[j + 1] \in Numerals}}

\* The text names a ticker: a token after Longed / Shorted, or a word before Entry:
NamesTicker(text) ==
    \E i \in 1..(Len(text) - 1) :
        \/ text[i] \in {"Longed", "Shorted"} /\ WordPrefix(text[i + 1]) # ""
        \/ WordSuffix(text[i]) # "" /\ text[i + 1] = "Entry:"

\* The text has a risk clause "(N% risk)"
HasRiskClause(text) ==
    \E i \in 1..(Len(text) - 1) : RiskDigits(text[i]) # "" /\ text[i + 1] = "risk)"

\* The defaults of a parsed signal: long exactly with a long keyword (short
\* when there is no direction keyword), risk 1 without a risk clause
DefaultsHold(text, signalData) ==
    /\ signalData.isLong <=> (\E i \in DOMAIN text : text[i] \in {"Longed", "LONG"})
    /\ ~hasDirectionPattern(text) => ~signalData.isLong
    /\ ~HasRiskClause(text) => signalData.risk = 1

\* C21 as stated: parseDiscordMessage returns null exactly when the text names
\* no ticker or gives no entry price, no stop-loss price or no target price;
\* a missing direction keyword or risk clause never makes it fail, the
\* direction then being short and the risk 1.
C21_NullIffUnresolved ==
    lastLog # <<>> =>
        LET text == lastLog[1]
            result == lastLog[3]
            resolved == /\ NamesTicker(text)
                        /\ PricesAfter(text, {"at", "Entry:"}) # {}
                        /\ PricesAfter(text, {"sl-", "SL:", "SL"}) # {}
                        /\ PricesAfter(text, {"TP:", "TPs:", "target"}) # {}
        IN  /\ result = Null <=> ~resolved
            /\ result # Null => DefaultsHold(text, result[1])

\* C21 as amended: parseDiscordMessage returns null exactly when the text names
\* no ticker, gives no entry price, no stop-loss price or no target price, or
\* gives one of the three prices as 0; a missing direction keyword or risk
\* clause never makes it fail, the direction then being short and the risk 1.
C21_NullIffUnresolvedOrZero ==
    lastLog # <<>> =>
        LET text == lastLog[1]
            result == lastLog[3]
            entries == PricesAfter(text, {"at", "Entry:"})
            stops == PricesAfter(text, {"sl-", "SL:", "SL"})
            targets == PricesAfter(text, {"TP:", "TPs:", "target"})
            resolved == NamesTicker(text) /\ entries # {} /\ stops # {} /\ targets # {}
            zero == 0 \in entries \cup stops \cup targets
        IN  /\ result = Null <=> (~resolved \/ zero)
            /\ result # Null => DefaultsHold(text, result[1])

\* C21 witness: a text with no direction keyword and no risk clause has been
\* parsed as a short signal with risk 1
C21_Witness ==
    /\ lastLog # <<>>
    /\ lastLog[1] = <<"ETH", "Entry:", "100", "sl-", "90", "TPs:", "110">>
    /\ lastLog[3] # Null
    /\ ~lastLog[3][1].isLong
    /\ lastLog[3][1].risk = 1
    /\ lastLog[3][1].ticker = "ETH"

\* The texts that pass hasValidSignal and that parseDiscordMessage does not parse
DroppedTexts == {t \in ParseTexts : SampleValid[t] /\ SampleParsed[t] = Null}

\* C22: a processMessage call on a text that passes hasValidSignal and is not
\* parsed returns after its "failed to parse" line: it stores no signal and
\* changes nothing in the store (config, signals, trades, counters, calls in
\* flight, responses), and it ends as a call that stored a signal or found a
\* duplicate ends, by returning; only its message id is on the console.
C22_UnparsedIsDropped ==
    [][/\ \A m \in IngestMsgIds, content \in DroppedTexts :
             ProcessMessageLogged(m, content) =>
                 /\ lastLog' = <<"ParseFailed">>
                 /\ storeVars' = storeVars
                 /\ seenIds' = seenIds \cup {m}
       /\ lastLog' = <<"ParseFailed">> => storeVars' = storeVars]_vars

\* C22 witness: the message m2 was dropped at the parser after a signal had
\* been stored for m1; the store holds that one signal and none for m2
C22_Witness ==
    /\ lastLog = <<"ParseFailed">>
    /\ seenIds = {"m1", "m2"}
    /\ Len(tradingSignals) = 1
    /\ tradingSignals[1].messageId = "m1"

\* C23: no step removes a signal or a trade: every stored signal id and trade
\* id is stored after the step, under the same message id and the same signal
\* id, and a trade that a step closes is still stored, with the position it
\* was opened with.
C23_NeverDeleted ==
    [][/\ \A id \in DOMAIN tradingSignals :
             /\ id \in DOMAIN tradingSignals'
             /\ tradingSignals'[id].messageId = tradingSignals[id].messageId
       /\ \A t \in DOMAIN trades :
             /\ t \in DOMAIN trades'
             /\ trades'[t].signalId = trades[t].signalId
             /\ trades'[t].entryPrice = trades[t].entryPrice
             /\ trades'[t].amount = trades[t].amount
             /\ trades'[t].status \in {"open", "closed"}
       /\ signalCurrentId' >= signalCurrentId
       /\ tradeCurrentId' >= tradeCurrentId]_vars

\* C23 witness: a trade has been closed and an ignored signal is stored; the
\* closed trade and its signal are still there
C23_Witness ==
    /\ \E t \in DOMAIN trades :
          /\ trades[t].status = "closed"
          /\ HasSignal(trades[t].signalId)
    /\ \E id \in DOMAIN tradingSignals : tradingSignals[id].ignored
    /\ lastResp.kind = "close" /\ lastResp.status = 200

\* C26: no two stored signals have the same message id, whatever sequence of
\* processMessage calls and create-signal requests made them.
C26_UniqueMessageId ==
    \A i, j \in DOMAIN tradingSignals :
        tradingSignals[i].messageId = tradingSignals[j].messageId => i = j

\* C27: in every reachable state a signal's processed flag is set exactly when
\* it is executed or ignored, so getUnprocessedSignals returns exactly the
\* pending signals; and a signal that a step stores starts with the three
\* flags false, whatever flags the create request carried.
C27_ProcessedIffTerminal ==
    [][/\ \A id \in DOMAIN tradingSignals' :
             /\ tradingSignals'[id].processed <=>
                    (tradingSignals'[id].executed \/ tradingSignals'[id].ignored)
             /\ id \notin DOMAIN tradingSignals =>
                    /\ ~tradingSignals'[id].processed
                    /\ ~tradingSignals'[id].executed
                    /\ ~tradingSignals'[id].ignored
       /\ getUnprocessedSignals' =
              {id \in DOMAIN tradingSignals' : Pending(tradingSignals'[id])}]_vars

\* C27 witness: a pending, an executed and an ignored signal are stored, and
\* getUnprocessedSignals returns the pending one only
C27_Witness ==
    /\ \E id \in DOMAIN tradingSignals :
          tradingSignals[id].executed /\ tradingSignals[id].processed
    /\ \E id \in DOMAIN tradingSignals :
          tradingSignals[id].ignored /\ ~tradingSignals[id].executed
    /\ Cardinality(getUnprocessedSignals) = 1

C29_ChannelNeverRaises ==
    [][\A c \in DOMAIN inflight, fetched \in FetchResults :
          ChannelEnd(c, fetched) =>
             /\ lastResp'.kind = "channel"
             /\ lastResp'.status = 200
             /\ IF fetched = Null
                THEN /\ lastResp'.processedCount = 0
                     /\ tradingSignals' = tradingSignals
                ELSE LET messages == fetched[1]
                         good == {k \in DOMAIN messages : messages[k] # Null}
                     IN  /\ lastResp'.processedCount = Cardinality(good)
                         /\ \A k \in good :
                               LET message == messages[k][1]
                               IN  (hasValidSignal(message.content)
                                      /\ parseDiscordMessage(message.content) # Null) =>
                                       \E id \in DOMAIN tradingSignals' :
                                           tradingSignals'[id].messageId = message.id]_vars

\* C30: hasValidSignal is at least as lenient as parseDiscordMessage: every
\* text that parseDiscordMessage parses is accepted by hasValidSignal, so the
\* check at the head of processMessage drops no text that would be parsed.
C30_PreFilterLenient ==
    lastLog # <<>> => (lastLog[3] # Null => lastLog[2])

\* C24: a step issues a click for a message only when the message's author is
\* on the allow-list, its text is classified locked (the hidden phrase and no
\* already-revealed marker) and the locator has found its control; an unlocked
\* message, and a message that has reached a terminal state, is never clicked.
C24_ClickNeedsAllThree ==
    [][\A m \in DOMAIN detector.feed :
          (detector'.reveal = Some(m) /\ detector.reveal # Some(m)) =>
             LET message == detector.feed[m]
             IN  /\ message.author \in AllowList
                 /\ message.hidden
                 /\ ~RevealedMarker(message.shown)
                 /\ message.control
                 /\ m \notin detector.seen]_vars

\* C24 witness: message 1 has been clicked and its reveal is outstanding,
\* while message 2, from an allowed author and locked, has been scanned
\* without a click because no control was found
C24_Witness ==
    /\ detector.reveal = Some(1)
    /\ 2 \in detector.scanned
    /\ detector.outcome[2] = "pending"
    /\ detector.feed[2].author \in AllowList
    /\ Locked(detector.feed[2])

\* C25: at most one cycle runs at a time, and while a reveal is outstanding
\* (clicked, its settle delay and re-scroll not over) no step issues another
\* click, scans a message, ends the cycle or begins one.
C25_CyclesDoNotOverlap ==
    [][/\ detector'.running <= 1
       /\ detector.reveal # Null =>
             /\ detector'.reveal \in {detector.reveal, Null}
             /\ detector'.running = detector.running
             /\ detector'.scanned = detector.scanned]_vars

\* C25 witness: a reveal is outstanding in the running cycle while another
\* message that meets the three criteria has not been scanned yet
C25_Witness ==
    /\ detector.running = 1
    /\ detector.reveal = Some(2)
    /\ 1 \notin detector.scanned
    /\ detector.feed[1].author \in AllowList
    /\ Locked(detector.feed[1])
    /\ detector.feed[1].control

====
